---- MODULE Spec2Model ----
(***************************************************************************)
(* The places pipeline (src/src/pipelines/01_build_places.py), the         *)
(* in-memory search index (src/src/services/search_places.py) and the     *)
(* HTTP layer over it (src/src/web/api.py) as one state machine.           *)
(*                                                                         *)
(* A Python str is a sequence of one-character strings.  An Optional       *)
(* value is a sequence of length 0 (None, and for a spreadsheet cell NaN)  *)
(* or of length 1 (the value).                                             *)
(***************************************************************************)
EXTENDS Integers, Sequences, FiniteSets, TLC

\* ------------------------------------------------------------------------
\* Bounds of the model
\* ------------------------------------------------------------------------
MaxRows == 2
MaxLimit == 2
MaxHeaders == 2
MaxText == 3

\* ------------------------------------------------------------------------
\* Python values
\* ------------------------------------------------------------------------
None == <<>>
Some(v) == <<v>>
IsNone(o) == Len(o) = 0
Val(o) == o[1]

Max2(a, b) == IF a >= b THEN a ELSE b

\* ------------------------------------------------------------------------
\* str methods
\* ------------------------------------------------------------------------
BOM == "\\ufeff"
WHITESPACE == {" ", "\t"}
DIGITS == <<"0", "1", "2", "3", "4", "5", "6", "7", "8", "9">>
UPPER == <<"A", "B", "C", "D", "E", "F", "G", "H", "I", "J", "K", "L", "M", "N", "O", "P", "Q", "R", "S", "T", "U", "V", "W", "X", "Y", "Z", "Ä", "Ö", "Ü">>
LOWER == <<"a", "b", "c", "d", "e", "f", "g", "h", "i", "j", "k", "l", "m", "n", "o", "p", "q", "r", "s", "t", "u", "v", "w", "x", "y", "z", "ä", "ö", "ü">>

IsDigit(c) == \E i \in 1..10 : DIGITS[i] = c
DigitVal(c) == (CHOOSE i \in 1..10 : DIGITS[i] = c) - 1

lower_char(c) ==
  IF \E i \in 1..Len(UPPER) : UPPER[i] = c
  THEN LOWER[CHOOSE i \in 1..Len(UPPER) : UPPER[i] = c]
  ELSE c

str_lower(s) == [i \in 1..Len(s) |-> lower_char(s[i])]

RECURSIVE str_lstrip(_)
str_lstrip(s) ==
  IF Len(s) > 0 /\ s[1] \in WHITESPACE THEN str_lstrip(Tail(s)) ELSE s

RECURSIVE str_rstrip(_)
str_rstrip(s) ==
  IF Len(s) > 0 /\ s[Len(s)] \in WHITESPACE
  THEN str_rstrip(SubSeq(s, 1, Len(s) - 1))
  ELSE s

str_strip(s) == str_rstrip(str_lstrip(s))

\* s.replace(c, "") for every c in chars
str_remove(s, chars) == SelectSeq(s, LAMBDA c : c \notin chars)

\* sub in s
str_contains(sub, s) ==
  \E i \in 0..(Len(s) - Len(sub)) : SubSeq(s, i + 1, i + Len(sub)) = sub

\* int(s) succeeds: an optional sign, then at least one digit
int_parses(s) ==
  LET body == IF Len(s) > 0 /\ s[1] = "-" THEN Tail(s) ELSE s
  IN  Len(body) > 0 /\ \A i \in 1..Len(body) : IsDigit(body[i])

RECURSIVE digits_value(_)
digits_value(s) ==
  IF Len(s) = 0 THEN 0
  ELSE 10 * digits_value(SubSeq(s, 1, Len(s) - 1)) + DigitVal(s[Len(s)])

int_value(s) ==
  IF s[1] = "-" THEN 0 - digits_value(Tail(s)) ELSE digits_value(s)

\* ------------------------------------------------------------------------
\* Column handling
\* ------------------------------------------------------------------------
CANON_MAP == <<
  << <<"o", "r", "t", "s", "t", "e", "i", "l", "-", "n", "r">>, <<"o", "r", "t", "s", "t", "e", "i", "l", "_", "n", "r">> >>,
  << <<"o", "r", "t", "s", "t", "e", "i", "l", "-", "n", "r", ".">>, <<"o", "r", "t", "s", "t", "e", "i", "l", "_", "n", "r">> >>,
  << <<"o", "r", "t", "s", "t", "e", "i", "l", "_", "n", "r">>, <<"o", "r", "t", "s", "t", "e", "i", "l", "_", "n", "r">> >>,
  << <<"s", "t", "a", "t", "u", "s", " ", "-", "i", "d">>, <<"s", "t", "a", "t", "u", "s", "_", "i", "d">> >>,
  << <<"s", "t", "a", "t", "u", "s", "-", "i", "d">>, <<"s", "t", "a", "t", "u", "s", "_", "i", "d">> >>,
  << <<"s", "t", "a", "t", "u", "s", "_", "i", "d">>, <<"s", "t", "a", "t", "u", "s", "_", "i", "d">> >>,
  << <<"s", "t", "a", "t", "u", "s">>, <<"s", "t", "a", "t", "u", "s", "_", "c", "o", "d", "e">> >>,
  << <<"a", "m", "t", "l", "i", "c", "h", "e", "r", " ", "g", "e", "m", "e", "i", "n", "d", "e", "-", "s", "c", "h", "l", "ü", "s", "s", "e", "l", " ", "(", "a", "g", "s", ")">>, <<"a", "g", "s">> >>,
  << <<"a", "m", "t", "l", "i", "c", "h", "e", "r", " ", "g", "e", "m", "e", "i", "n", "d", "e", "s", "c", "h", "l", "ü", "s", "s", "e", "l", " ", "(", "a", "g", "s", ")">>, <<"a", "g", "s">> >>,
  << <<"a", "g", "s">>, <<"a", "g", "s">> >>,
  << <<"a", "m", "t", "l", "i", "c", "h", "e", "r", " ", "r", "e", "g", "i", "o", "n", "a", "l", "-", "s", "c", "h", "l", "ü", "s", "s", "e", "l", " ", "(", "a", "r", "s", ")">>, <<"a", "r", "s">> >>,
  << <<"a", "m", "t", "l", "i", "c", "h", "e", "r", " ", "r", "e", "g", "i", "o", "n", "a", "l", " ", "s", "c", "h", "l", "ü", "s", "s", "e", "l", " ", "(", "a", "r", "s", ")">>, <<"a", "r", "s">> >>,
  << <<"a", "r", "s">>, <<"a", "r", "s">> >>,
  << <<"g", "e", "m", "e", "i", "n", "d", "e", "-", "v", "e", "r", "b", "a", "n", "d", "s", "n", "r", ".", " ", "(", "g", "v", "n", "r", ")">>, <<"g", "v", "n", "r">> >>,
  << <<"g", "e", "m", "e", "i", "n", "d", "e", "v", "e", "r", "b", "a", "n", "d", "s", "n", "r", ".", " ", "(", "g", "v", "n", "r", ")">>, <<"g", "v", "n", "r">> >>,
  << <<"g", "v", "n", "r">>, <<"g", "v", "n", "r">> >>,
  << <<"g", "e", "m", "e", "i", "n", "d", "e", ",", " ", "o", "r", "t", "s", "t", "e", "i", "l", ",", " ", "g", "e", "m", "e", "i", "n", "d", "e", "t", "e", "i", "l", ",", " ", "w", "o", "h", "n", "p", "l", "a", "t", "z">>, <<"n", "a", "m", "e">> >>,
  << <<"g", "e", "m", "e", "i", "n", "d", "e", ",", " ", "o", "r", "t", "s", "t", "e", "i", "l", ",", " ", "g", "e", "m", "e", "i", "n", "d", "e", "t", "e", "i", "l", ",", " ", "w", "o", "h", "n", "p", "l", "a", "t", "z", " ">>, <<"n", "a", "m", "e">> >>,
  << <<"n", "a", "m", "e">>, <<"n", "a", "m", "e">> >>,
  << <<"s", "o", "r", "b", "i", "s", "c", "h", "e", "r", " ", "o", "r", "t", "s", "n", "a", "m", "e">>, <<"n", "a", "m", "e", "_", "s", "o", "r", "b">> >>,
  << <<"g", "e", "m", "e", "i", "n", "d", "e", "v", "e", "r", "b", "a", "n", "d">>, <<"v", "e", "r", "b", "a", "n", "d", "_", "n", "a", "m", "e">> >>,
  << <<"g", "e", "m", "e", "i", "n", "d", "e", "v", "e", "r", "b", "a", "n", "d", "s", "a", "r", "t">>, <<"v", "e", "r", "b", "a", "n", "d", "_", "t", "y", "p", "e">> >>,
  << <<"l", "a", "n", "d", "k", "r", "e", "i", "s", " ", "/", " ", "k", "r", "e", "i", "s", "f", "r", "e", "i", "e", " ", "s", "t", "a", "d", "t">>, <<"d", "i", "s", "t", "r", "i", "c", "t">> >>,
  << <<"e", "i", "n", "w", "o", "h", "n", "e", "r", "z", "a", "h", "l", " ", "(", "3", "1", ".", "1", "2", ".", "2", "0", "2", "2", ")">>, <<"p", "o", "p", "u", "l", "a", "t", "i", "o", "n">> >>,
  << <<"f", "l", "ä", "c", "h", "e", " ", "i", "n", " ", "h", "a", " ", "(", "3", "1", ".", "1", "2", ".", "2", "0", "2", "2", ")">>, <<"a", "r", "e", "a", "_", "h", "a">> >>,
  << <<"z", "o", "n", "e">>, <<"u", "t", "m", "_", "z", "o", "n", "e">> >>,
  << <<"o", "s", "t", "w", "e", "r", "t">>, <<"u", "t", "m", "_", "e", "a", "s", "t", "i", "n", "g">> >>,
  << <<"n", "o", "r", "d", "w", "e", "r", "t">>, <<"u", "t", "m", "_", "n", "o", "r", "t", "h", "i", "n", "g">> >>,
  << <<"p", "o", "s", "t", "l", "e", "i", "t", "z", "a", "h", "l", " ", "(", "0", "1", ".", "0", "1", ".", "2", "0", "2", "6", ")">>, <<"p", "l", "z">> >>,
  << <<"t", "e", "l", "e", "f", "o", "n", "-", " ", "v", "o", "r", "w", "a", "h", "l">>, <<"v", "o", "r", "w", "a", "h", "l">> >>,
  << <<"r", "e", "g", "i", "o", "n">>, <<"r", "e", "g", "i", "o", "n">> >>,
  << <<"l", "e", "t", "z", "t", "e", " ", "k", "o", "r", "r", "e", "k", "t", "u", "r">>, <<"l", "a", "s", "t", "_", "m", "o", "d", "i", "f", "i", "e", "d">> >>,
  << <<"k", "o", "r", "r", "e", "k", "t", "u", "r", "(", "e", "n", ")">>, <<"c", "o", "r", "r", "e", "c", "t", "i", "o", "n", "s">> >>,
  << <<"u", "t", "m", "-", "k", "o", "o", "r", "d", "i", "n", "a", "t", "e", "n", " ", "(", "e", "t", "r", "s", " ", "8", "9", ")", " ", "z", "o", "n", "e">>, <<"u", "t", "m", "_", "z", "o", "n", "e">> >>,
  << <<"u", "t", "m", "-", "k", "o", "o", "r", "d", "i", "n", "a", "t", "e", "n", " ", "(", "e", "t", "r", "s", " ", "8", "9", ")", " ", "o", "s", "t", "w", "e", "r", "t">>, <<"u", "t", "m", "_", "e", "a", "s", "t", "i", "n", "g">> >>,
  << <<"u", "t", "m", "-", "k", "o", "o", "r", "d", "i", "n", "a", "t", "e", "n", " ", "(", "e", "t", "r", "s", " ", "8", "9", ")", " ", "n", "o", "r", "d", "w", "e", "r", "t">>, <<"u", "t", "m", "_", "n", "o", "r", "t", "h", "i", "n", "g">> >>,
  << <<"u", "t", "m", " ", "k", "o", "o", "r", "d", "i", "n", "a", "t", "e", "n", " ", "(", "e", "t", "r", "s", " ", "8", "9", ")", " ", "z", "o", "n", "e">>, <<"u", "t", "m", "_", "z", "o", "n", "e">> >>,
  << <<"u", "t", "m", " ", "k", "o", "o", "r", "d", "i", "n", "a", "t", "e", "n", " ", "(", "e", "t", "r", "s", " ", "8", "9", ")", " ", "o", "s", "t", "w", "e", "r", "t">>, <<"u", "t", "m", "_", "e", "a", "s", "t", "i", "n", "g">> >>,
  << <<"u", "t", "m", " ", "k", "o", "o", "r", "d", "i", "n", "a", "t", "e", "n", " ", "(", "e", "t", "r", "s", " ", "8", "9", ")", " ", "n", "o", "r", "d", "w", "e", "r", "t">>, <<"u", "t", "m", "_", "n", "o", "r", "t", "h", "i", "n", "g">> >>
>>

\* RE_WHITESPACE.sub(" ", c): every run of whitespace becomes one space
RECURSIVE RE_WHITESPACE_sub(_)
RE_WHITESPACE_sub(s) ==
  IF Len(s) = 0 THEN s
  ELSE IF s[1] \in WHITESPACE
       THEN <<" ">> \o RE_WHITESPACE_sub(str_lstrip(s))
       ELSE <<s[1]>> \o RE_WHITESPACE_sub(Tail(s))

norm_col(col) ==
  LET c1 == str_lower(str_strip(col))
      c2 == str_remove(c1, {BOM})
  IN  RE_WHITESPACE_sub(c2)

\* the "Normalize headers" loop of main and df.rename(columns=rename)
canon_col(c) ==
  LET nc == norm_col(c)
  IN  IF \E i \in 1..Len(CANON_MAP) : CANON_MAP[i][1] = nc
      THEN CANON_MAP[CHOOSE i \in 1..Len(CANON_MAP) : CANON_MAP[i][1] = nc][2]
      ELSE nc

normalize_headers(cols) == [i \in 1..Len(cols) |-> canon_col(cols[i])]

InCols(c, cols) == \E i \in 1..Len(cols) : cols[i] = c

\* a dict built by assignments in order: the last assignment to a key wins
dict_get(pairs, k, default) ==
  IF \E i \in 1..Len(pairs) : pairs[i][1] = k
  THEN LET last == CHOOSE i \in 1..Len(pairs) :
                     /\ pairs[i][1] = k
                     /\ \A j \in (i + 1)..Len(pairs) : pairs[j][1] # k
       IN  pairs[last][2]
  ELSE default

autofix_utm_columns(cols) ==
  LET utm_zone == <<"u", "t", "m", "_", "z", "o", "n", "e">>
      utm_easting == <<"u", "t", "m", "_", "e", "a", "s", "t", "i", "n", "g">>
      utm_northing == <<"u", "t", "m", "_", "n", "o", "r", "t", "h", "i", "n", "g">>
      has(tok, c) == str_contains(tok, str_lower(c))
      utm_zone_candidates ==
        SelectSeq(cols, LAMBDA c : has(<<"z", "o", "n", "e">>, c) /\ has(<<"u", "t", "m">>, c))
      utm_easting_candidates ==
        SelectSeq(cols, LAMBDA c : (has(<<"o", "s", "t", "w", "e", "r", "t">>, c) \/ has(<<"e", "a", "s", "t", "i", "n", "g">>, c))
                                   /\ has(<<"u", "t", "m">>, c))
      utm_northing_candidates ==
        SelectSeq(cols, LAMBDA c : (has(<<"n", "o", "r", "d", "w", "e", "r", "t">>, c) \/ has(<<"n", "o", "r", "t", "h", "i", "n", "g">>, c))
                                   /\ has(<<"u", "t", "m">>, c))
      r1 == IF ~InCols(utm_zone, cols) /\ Len(utm_zone_candidates) > 0
            THEN << <<utm_zone_candidates[1], utm_zone>> >> ELSE <<>>
      r2 == IF ~InCols(utm_easting, cols) /\ Len(utm_easting_candidates) > 0
            THEN << <<utm_easting_candidates[1], utm_easting>> >> ELSE <<>>
      r3 == IF ~InCols(utm_northing, cols) /\ Len(utm_northing_candidates) > 0
            THEN << <<utm_northing_candidates[1], utm_northing>> >> ELSE <<>>
      rename == r1 \o r2 \o r3
  IN  IF InCols(utm_zone, cols) /\ InCols(utm_easting, cols)
         /\ InCols(utm_northing, cols)
      THEN cols
      ELSE [i \in 1..Len(cols) |-> dict_get(rename, cols[i], cols[i])]

required == << <<"o", "r", "t", "s", "t", "e", "i", "l", "_", "n", "r">>, <<"s", "t", "a", "t", "u", "s", "_", "c", "o", "d", "e">>, <<"n", "a", "m", "e">>, <<"a", "g", "s">>, <<"a", "r", "s">>,
               <<"d", "i", "s", "t", "r", "i", "c", "t">>, <<"u", "t", "m", "_", "z", "o", "n", "e">>, <<"u", "t", "m", "_", "e", "a", "s", "t", "i", "n", "g">>, <<"u", "t", "m", "_", "n", "o", "r", "t", "h", "i", "n", "g">> >>

missing_columns(cols) == SelectSeq(required, LAMBDA c : ~InCols(c, cols))

\* ------------------------------------------------------------------------
\* Safe coercers
\* ------------------------------------------------------------------------
to_int_safe(x) ==
  IF IsNone(x) THEN None
  ELSE LET s  == str_strip(Val(x))
           s2 == str_remove(s, {".", " "})
           s3 == SelectSeq(s2, LAMBDA c : IsDigit(c) \/ c = "-")
       IN  IF Len(s) = 0 THEN None
           ELSE IF int_parses(s3) THEN Some(int_value(s3)) ELSE None

\* to_str_safe without the strip()
to_str_safe_no_strip(x) ==
  IF IsNone(x) THEN None
  ELSE IF Len(Val(x)) = 0 THEN None ELSE Some(Val(x))

to_str_safe(x) ==
  IF IsNone(x) THEN None
  ELSE LET s == str_strip(Val(x))
       IN  IF Len(s) = 0 THEN None ELSE Some(s)

\* ------------------------------------------------------------------------
\* Coordinate conversion
\* ------------------------------------------------------------------------
\* CRS.from_epsg(code) finds a CRS: ETRS89 / UTM zone 28N..38N and
\* ETRS89 / TM Baltic93 are the EPSG codes 258xx that exist.
CRS_from_epsg_exists(code) == code \in (25828..25838) \cup {25884}

CentralMeridian(z) == IF z = 84 THEN 24 ELSE 6 * z - 183

\* Transformer.transform(e, n) with always_xy: <<lon, lat>>, in hundredths
\* of a degree (a metre of northing is 1/111320 degree, a metre of easting
\* about 1/68000 degree at these latitudes).
Transformer_transform(z, e, n) ==
  << CentralMeridian(z) * 100 + ((e - 500000) * 100) \div 68000,
     (n * 100) \div 111320 >>

\* utm_to_wgs84 with a sanity check of the latitude only
utm_to_wgs84_lat_only(transformers, zone, easting, northing) ==
  LET z == to_int_safe(zone)
      e == to_int_safe(easting)
      n == to_int_safe(northing)
  IN  IF IsNone(z) \/ IsNone(e) \/ IsNone(n)
      THEN [raised |-> FALSE, lat |-> None, lon |-> None,
            transformers |-> transformers, created |-> <<>>]
      ELSE IF Val(z) \notin transformers
              /\ ~CRS_from_epsg_exists(25800 + Val(z))
      THEN [raised |-> TRUE, lat |-> None, lon |-> None,
            transformers |-> transformers, created |-> <<>>]
      ELSE LET lonlat == Transformer_transform(Val(z), Val(e), Val(n))
               lon == lonlat[1]
               lat == lonlat[2]
               cache == transformers \cup {Val(z)}
               made == IF Val(z) \notin transformers THEN <<Val(z)>> ELSE <<>>
           IN  IF ~(45 * 100 <= lat /\ lat <= 60 * 100)
               THEN [raised |-> FALSE, lat |-> None, lon |-> None,
                     transformers |-> cache, created |-> made]
               ELSE [raised |-> FALSE, lat |-> Some(lat), lon |-> Some(lon),
                     transformers |-> cache, created |-> made]

\* utm_to_wgs84 against the module-level cache _transformers (the set of
\* cached zones): raised, the returned pair, the cache afterwards, and the
\* zone Transformer.from_crs was called for, if it was.
utm_to_wgs84(transformers, zone, easting, northing) ==
  LET z == to_int_safe(zone)
      e == to_int_safe(easting)
      n == to_int_safe(northing)
  IN  IF IsNone(z) \/ IsNone(e) \/ IsNone(n)
      THEN [raised |-> FALSE, lat |-> None, lon |-> None,
            transformers |-> transformers, created |-> <<>>]
      ELSE IF Val(z) \notin transformers
              /\ ~CRS_from_epsg_exists(25800 + Val(z))
      THEN [raised |-> TRUE, lat |-> None, lon |-> None,
            transformers |-> transformers, created |-> <<>>]
      ELSE LET lonlat == Transformer_transform(Val(z), Val(e), Val(n))
               lon == lonlat[1]
               lat == lonlat[2]
               cache == transformers \cup {Val(z)}
               made == IF Val(z) \notin transformers THEN <<Val(z)>> ELSE <<>>
           IN  IF ~(45 * 100 <= lat /\ lat <= 60 * 100
                    /\ 5 * 100 <= lon /\ lon <= 20 * 100)
               THEN [raised |-> FALSE, lat |-> None, lon |-> None,
                     transformers |-> cache, created |-> made]
               ELSE [raised |-> FALSE, lat |-> Some(lat), lon |-> Some(lon),
                     transformers |-> cache, created |-> made]

\* a float is the exact decimal m / 10^d with no trailing zero in m
RECURSIVE float_norm(_, _)
float_norm(m, d) ==
  IF d > 0 /\ m % 10 = 0 THEN float_norm(m \div 10, d - 1)
  ELSE [m |-> m, d |-> d]

\* float(s) succeeds: an optional sign, digits with at most one point
float_parses(s) ==
  LET body == IF Len(s) > 0 /\ s[1] = "-" THEN Tail(s) ELSE s
      points == SelectSeq(body, LAMBDA c : c = ".")
      digs == SelectSeq(body, LAMBDA c : IsDigit(c))
  IN  /\ Len(points) <= 1
      /\ Len(digs) >= 1
      /\ Len(points) + Len(digs) = Len(body)

float_value(s) ==
  LET neg == s[1] = "-"
      body == IF neg THEN Tail(s) ELSE s
      digs == SelectSeq(body, LAMBDA c : IsDigit(c))
      point == IF \E i \in 1..Len(body) : body[i] = "."
               THEN CHOOSE i \in 1..Len(body) : body[i] = "."
               ELSE Len(body) + 1
      d == IF point > Len(body) THEN 0 ELSE Len(body) - point
      m == digits_value(digs)
  IN  float_norm(IF neg THEN 0 - m ELSE m, d)

\* to_float_safe turning the decimal comma into a point before it removes
\* the points
to_float_safe_comma_first(x) ==
  IF IsNone(x) THEN None
  ELSE LET s  == str_strip(Val(x))
           s2 == [i \in 1..Len(s) |-> IF s[i] = "," THEN "." ELSE s[i]]
           s3 == str_remove(s2, {".", " "})
           s4 == SelectSeq(s3, LAMBDA c : IsDigit(c) \/ c = "." \/ c = "-")
       IN  IF Len(s) = 0 THEN None
           ELSE IF float_parses(s4) THEN Some(float_value(s4)) ELSE None

to_float_safe(x) ==
  IF IsNone(x) THEN None
  ELSE LET s  == str_strip(Val(x))
           s2 == str_remove(s, {".", " "})
           s3 == [i \in 1..Len(s2) |-> IF s2[i] = "," THEN "." ELSE s2[i]]
           s4 == SelectSeq(s3, LAMBDA c : IsDigit(c) \/ c = "." \/ c = "-")
       IN  IF Len(s) = 0 THEN None
           ELSE IF float_parses(s4) THEN Some(float_value(s4)) ELSE None

\* ------------------------------------------------------------------------
\* json.dumps / json.loads of the values a record holds.  A JSON text of a
\* scalar is its character sequence; an object is the sequence of its
\* <<key, text>> members in insertion order.
\* ------------------------------------------------------------------------
RECURSIVE nat_repr(_)
nat_repr(n) ==
  IF n < 10 THEN <<DIGITS[n + 1]>>
  ELSE nat_repr(n \div 10) \o <<DIGITS[(n % 10) + 1]>>

int_repr(n) == IF n < 0 THEN <<"-">> \o nat_repr(0 - n) ELSE nat_repr(n)

RECURSIVE zero_pad(_, _)
zero_pad(s, width) == IF Len(s) >= width THEN s ELSE zero_pad(<<"0">> \o s, width)

RECURSIVE pow10(_)
pow10(d) == IF d = 0 THEN 1 ELSE 10 * pow10(d - 1)

\* repr(float): at least one digit on each side of the point
float_repr(f) ==
  LET neg == f.m < 0
      a == IF neg THEN 0 - f.m ELSE f.m
      whole == nat_repr(a \div pow10(f.d))
      frac == IF f.d = 0 THEN <<"0">> ELSE zero_pad(nat_repr(a % pow10(f.d)), f.d)
  IN  (IF neg THEN <<"-">> ELSE <<>>) \o whole \o <<".">> \o frac

JSON_NULL == <<"n", "u", "l", "l">>
QUOTE == "\""

json_dumps_str(o) == IF IsNone(o) THEN JSON_NULL ELSE <<QUOTE>> \o Val(o) \o <<QUOTE>>
json_dumps_int(o) == IF IsNone(o) THEN JSON_NULL ELSE int_repr(Val(o))
json_dumps_float(o) == IF IsNone(o) THEN JSON_NULL ELSE float_repr(Val(o))

\* json.loads of a scalar text: null, a string, or a number (a float when
\* the text has a point, an int otherwise)
json_loads_scalar(t) ==
  IF t = JSON_NULL THEN None
  ELSE IF t[1] = QUOTE THEN Some(SubSeq(t, 2, Len(t) - 1))
  ELSE IF \E i \in 1..Len(t) : t[i] = "." THEN Some(float_value(t))
  ELSE Some(int_value(t))

json_member(members, k) ==
  members[CHOOSE i \in 1..Len(members) : members[i][1] = k][2]

json_dumps(obj) == <<
  <<"place_id", json_dumps_str(Some(obj.place_id))>>,
  <<"name", json_dumps_str(Some(obj.name))>>,
  <<"name_sorb", json_dumps_str(obj.name_sorb)>>,
  <<"status_code", json_dumps_str(obj.status_code)>>,
  <<"ags", json_dumps_str(obj.ags)>>,
  <<"ars", json_dumps_str(obj.ars)>>,
  <<"gvnr", json_dumps_str(obj.gvnr)>>,
  <<"admin", <<
     <<"district", json_dumps_str(obj.admin.district)>>,
     <<"verband_name", json_dumps_str(obj.admin.verband_name)>>,
     <<"verband_type", json_dumps_str(obj.admin.verband_type)>>,
     <<"region", json_dumps_str(obj.admin.region)>>,
     <<"plz", json_dumps_str(obj.admin.plz)>>,
     <<"vorwahl", json_dumps_str(obj.admin.vorwahl)>> >> >>,
  <<"stats", <<
     <<"population", json_dumps_int(obj.stats.population)>>,
     <<"area_ha", json_dumps_float(obj.stats.area_ha)>> >> >>,
  <<"geo", <<
     <<"lat", json_dumps_float(obj.geo.lat)>>,
     <<"lon", json_dumps_float(obj.geo.lon)>>,
     <<"utm", <<
        <<"zone", json_dumps_int(obj.geo.utm.zone)>>,
        <<"easting", json_dumps_int(obj.geo.utm.easting)>>,
        <<"northing", json_dumps_int(obj.geo.utm.northing)>>,
        <<"crs", json_dumps_str(Some(obj.geo.utm.crs))>> >> >> >> >>,
  <<"aliases", <<>> >>,
  <<"sources", <<
     <<"gemeindeverzeichnis_bb", <<
        <<"last_modified", json_dumps_str(obj.sources.gemeindeverzeichnis_bb.last_modified)>>,
        <<"corrections", json_dumps_str(obj.sources.gemeindeverzeichnis_bb.corrections)>> >> >> >> >>
>>

\* json.loads(line): a dict; obj.get(k) of a present key gives its value
\* (None for null)
json_loads(line) ==
  LET g(ms, k) == json_loads_scalar(json_member(ms, k))
      admin == json_member(line, "admin")
      stats == json_member(line, "stats")
      geo == json_member(line, "geo")
      utm == json_member(geo, "utm")
      src == json_member(json_member(line, "sources"), "gemeindeverzeichnis_bb")
  IN  [place_id |-> g(line, "place_id"),
       name |-> g(line, "name"),
       name_sorb |-> g(line, "name_sorb"),
       status_code |-> g(line, "status_code"),
       ags |-> g(line, "ags"),
       ars |-> g(line, "ars"),
       gvnr |-> g(line, "gvnr"),
       admin |-> [district |-> g(admin, "district"),
                  verband_name |-> g(admin, "verband_name"),
                  verband_type |-> g(admin, "verband_type"),
                  region |-> g(admin, "region"),
                  plz |-> g(admin, "plz"),
                  vorwahl |-> g(admin, "vorwahl")],
       stats |-> [population |-> g(stats, "population"),
                  area_ha |-> g(stats, "area_ha")],
       geo |-> [lat |-> g(geo, "lat"),
                lon |-> g(geo, "lon"),
                utm |-> [zone |-> g(utm, "zone"),
                         easting |-> g(utm, "easting"),
                         northing |-> g(utm, "northing"),
                         crs |-> g(utm, "crs")]],
       aliases |-> json_member(line, "aliases"),
       sources |-> [gemeindeverzeichnis_bb |->
                      [last_modified |-> g(src, "last_modified"),
                       corrections |-> g(src, "corrections")]]]

\* ------------------------------------------------------------------------
\* The spreadsheet: what read_excel_loose returns (dtype=str: a cell is a
\* str or NaN).  Every sheet has nine columns, in the order id, status,
\* name, ags, ars, district, zone, easting, northing.
\* ------------------------------------------------------------------------
NaN == None

HeadersRaw == <<
  <<"O", "r", "t", "s", "t", "e", "i", "l", "-", "N", "r", ".">>, <<"S", "t", "a", "t", "u", "s">>,
  <<"G", "e", "m", "e", "i", "n", "d", "e", ",", " ", "O", "r", "t", "s", "t", "e", "i", "l", ",", " ", " ", "G", "e", "m", "e", "i", "n", "d", "e", "t", "e", "i", "l", ",", " ", "W", "o", "h", "n", "p", "l", "a", "t", "z">>,
  <<"A", "G", "S">>, <<"A", "R", "S">>, <<"L", "a", "n", "d", "k", "r", "e", "i", "s", " ", "/", " ", "k", "r", "e", "i", "s", "f", "r", "e", "i", "e", " ", "S", "t", "a", "d", "t">>,
  <<"U", "T", "M", "-", "K", "o", "o", "r", "d", "i", "n", "a", "t", "e", "n", " ", "(", "E", "T", "R", "S", " ", "8", "9", ")", " ", "Z", "o", "n", "e">>,
  <<"U", "T", "M", "-", "K", "o", "o", "r", "d", "i", "n", "a", "t", "e", "n", " ", "(", "E", "T", "R", "S", " ", "8", "9", ")", " ", "O", "s", "t", "w", "e", "r", "t">>,
  <<"U", "T", "M", "-", "K", "o", "o", "r", "d", "i", "n", "a", "t", "e", "n", " ", "(", "E", "T", "R", "S", " ", "8", "9", ")", " ", "N", "o", "r", "d", "w", "e", "r", "t">> >>

HeadersAutofix == <<
  <<"o", "r", "t", "s", "t", "e", "i", "l", "_", "n", "r">>, <<"s", "t", "a", "t", "u", "s">>, <<"n", "a", "m", "e">>, <<"a", "g", "s">>, <<"a", "r", "s">>, <<"d", "i", "s", "t", "r", "i", "c", "t">>,
  <<"U", "T", "M", " ", "Z", "o", "n", "e", " ", "(", "E", "T", "R", "S", "8", "9", ")">>, <<"U", "T", "M", " ", "E", "a", "s", "t", "i", "n", "g">>, <<"u", "t", "m", "_", "n", "o", "r", "t", "h", "i", "n", "g">> >>

\* the sheet keys its rows by "Status -ID": no ortsteil_nr column
HeadersNoId == <<
  <<"S", "t", "a", "t", "u", "s", " ", "-", "I", "D">>, <<"S", "t", "a", "t", "u", "s">>, <<"N", "a", "m", "e">>, <<"A", "G", "S">>, <<"A", "R", "S">>,
  <<"L", "a", "n", "d", "k", "r", "e", "i", "s", " ", "/", " ", "k", "r", "e", "i", "s", "f", "r", "e", "i", "e", " ", "S", "t", "a", "d", "t">>, <<"Z", "o", "n", "e">>, <<"O", "s", "t", "w", "e", "r", "t">>, <<"N", "o", "r", "d", "w", "e", "r", "t">> >>

\* coordinate columns that neither CANON_MAP nor the fixer knows
HeadersNoUtm == <<
  <<"O", "r", "t", "s", "t", "e", "i", "l", "-", "N", "r">>, <<"S", "t", "a", "t", "u", "s">>, <<"N", "a", "m", "e">>, <<"A", "G", "S">>, <<"A", "R", "S">>,
  <<"L", "a", "n", "d", "k", "r", "e", "i", "s", " ", "/", " ", "k", "r", "e", "i", "s", "f", "r", "e", "i", "e", " ", "S", "t", "a", "d", "t">>, <<"Z", "o", "n", "e">>, <<"R", "e", "c", "h", "t", "s", "w", "e", "r", "t">>, <<"H", "o", "c", "h", "w", "e", "r", "t">> >>

HeaderSets == {HeadersRaw, HeadersAutofix, HeadersNoId, HeadersNoUtm}

mk_row(id, name, zone, easting, northing) ==
  << id, Some(<<"G", "T">>), name, Some(<<"1", "2", "0", "6", "0", "0", "0", "5">>), NaN, Some(<<"B", "a", "r", "n", "i", "m">>),
     zone, easting, northing >>

RowKinds == {
  \* kept, coordinates inside the box
  mk_row(Some(<<"1">>), Some(<<"a", "b">>), Some(<<"3", "3">>), Some(<<"4", "0", "0", "0", "0", "0">>), Some(<<"5", "8", "0", "0", "0", "0", "0">>)),
  \* kept, same key as "ab", zone 38: the longitude falls outside the box
  mk_row(Some(<<" ", "2", " ">>), Some(<<" ", "A", "b">>), Some(<<"3", "8">>), Some(<<"4", "0", "0", ".", "0", "0", "0">>), Some(<<"5", ".", "8", "0", "0", ".", "0", "0", "0">>)),
  \* kept, the place_id of the first kind again, unparsable zone
  mk_row(Some(<<"1">>), Some(<<"b", "a">>), Some(<<"x">>), Some(<<"4", "0", "0", "0", "0", "0">>), Some(<<"5", "8", "0", "0", "0", "0", "0">>)),
  \* kept, northing 0: the latitude falls outside the box
  mk_row(Some(<<"3">>), Some(<<"a">>), Some(<<"3", "3">>), Some(<<"4", "0", "0", "0", "0", "0">>), Some(<<"0">>)),
  \* dropped: no place_id
  mk_row(NaN, Some(<<"b">>), Some(<<"3", "3">>), Some(<<"4", "0", "0", "0", "0", "0">>), Some(<<"5", "8", "0", "0", "0", "0", "0">>)),
  \* dropped: whitespace-only name
  mk_row(Some(<<"4">>), Some(<<" ", "\t">>), Some(<<"3", "3">>), Some(<<"4", "0", "0", "0", "0", "0">>), Some(<<"5", "8", "0", "0", "0", "0", "0">>)),
  \* a zone that parses to an integer with no EPSG:258xx code
  mk_row(Some(<<"5">>), Some(<<"c">>), Some(<<"9", "9">>), Some(<<"4", "0", "0", "0", "0", "0">>), Some(<<"5", "8", "0", "0", "0", "0", "0">>))
}

RECURSIVE SeqsUpTo(_, _)
SeqsUpTo(S, n) ==
  IF n = 0 THEN {<<>>}
  ELSE LET shorter == SeqsUpTo(S, n - 1)
       IN  shorter \cup {Append(q, x) : q \in {r \in shorter : Len(r) = n - 1}, x \in S}

\* row.get(name): the cell under the first column of that label, else None
row_get(cols, row, name) ==
  IF \E i \in 1..Len(cols) : cols[i] = name
  THEN row[CHOOSE i \in 1..Len(cols) :
             cols[i] = name /\ \A j \in 1..(i - 1) : cols[j] # name]
  ELSE None

\* the record main assembles for a kept row
build_obj(cols, row, place_id, name, lat, lon) ==
  LET cell(k) == row_get(cols, row, k)
  IN  [place_id |-> place_id,
       name |-> name,
       name_sorb |-> to_str_safe(cell(<<"n", "a", "m", "e", "_", "s", "o", "r", "b">>)),
       status_code |-> to_str_safe(cell(<<"s", "t", "a", "t", "u", "s", "_", "c", "o", "d", "e">>)),
       ags |-> to_str_safe(cell(<<"a", "g", "s">>)),
       ars |-> to_str_safe(cell(<<"a", "r", "s">>)),
       gvnr |-> to_str_safe(cell(<<"g", "v", "n", "r">>)),
       admin |-> [district |-> to_str_safe(cell(<<"d", "i", "s", "t", "r", "i", "c", "t">>)),
                  verband_name |-> to_str_safe(cell(<<"v", "e", "r", "b", "a", "n", "d", "_", "n", "a", "m", "e">>)),
                  verband_type |-> to_str_safe(cell(<<"v", "e", "r", "b", "a", "n", "d", "_", "t", "y", "p", "e">>)),
                  region |-> to_str_safe(cell(<<"r", "e", "g", "i", "o", "n">>)),
                  plz |-> to_str_safe(cell(<<"p", "l", "z">>)),
                  vorwahl |-> to_str_safe(cell(<<"v", "o", "r", "w", "a", "h", "l">>))],
       stats |-> [population |-> to_int_safe(cell(<<"p", "o", "p", "u", "l", "a", "t", "i", "o", "n">>)),
                  area_ha |-> to_float_safe(cell(<<"a", "r", "e", "a", "_", "h", "a">>))],
       geo |-> [lat |-> lat,
                lon |-> lon,
                utm |-> [zone |-> to_int_safe(cell(<<"u", "t", "m", "_", "z", "o", "n", "e">>)),
                         easting |-> to_int_safe(cell(<<"u", "t", "m", "_", "e", "a", "s", "t", "i", "n", "g">>)),
                         northing |-> to_int_safe(cell(<<"u", "t", "m", "_", "n", "o", "r", "t", "h", "i", "n", "g">>)),
                         crs |-> <<"E", "T", "R", "S", "8", "9", " ", "/", " ", "U", "T", "M", " ", "(", "E", "P", "S", "G", ":", "2", "5", "8", "x", "x", ")">>]],
       aliases |-> <<>>,
       sources |-> [gemeindeverzeichnis_bb |->
                      [last_modified |-> to_str_safe(cell(<<"l", "a", "s", "t", "_", "m", "o", "d", "i", "f", "i", "e", "d">>)),
                       corrections |-> to_str_safe(cell(<<"c", "o", "r", "r", "e", "c", "t", "i", "o", "n", "s">>))]]]

\* index.setdefault(key, []).append(place_id) on an insertion-ordered dict
index_append(index, key, place_id) ==
  IF \E i \in 1..Len(index) : index[i][1] = key
  THEN [i \in 1..Len(index) |->
          IF index[i][1] = key
          THEN <<key, Append(index[i][2], place_id)>>
          ELSE index[i]]
  ELSE Append(index, <<key, <<place_id>> >>)

\* json.dumps(index): an object of arrays of strings
json_dumps_index(index) ==
  [i \in 1..Len(index) |->
     << json_dumps_str(Some(index[i][1])),
        [j \in 1..Len(index[i][2]) |-> json_dumps_str(Some(index[i][2][j]))] >>]

\* float(lat): the transform works in hundredths of a degree
to_float(c) == float_norm(c, 2)

\* what one iteration of the row loop does to (file lines, index, cache),
\* with the object it serialized and the zone it created a transformer for
process_row(cols, row, lines, index, transformers) ==
  LET place_id == to_str_safe(row_get(cols, row, <<"o", "r", "t", "s", "t", "e", "i", "l", "_", "n", "r">>))
      name == to_str_safe(row_get(cols, row, <<"n", "a", "m", "e">>))
      conv == utm_to_wgs84(transformers,
                           row_get(cols, row, <<"u", "t", "m", "_", "z", "o", "n", "e">>),
                           row_get(cols, row, <<"u", "t", "m", "_", "e", "a", "s", "t", "i", "n", "g">>),
                           row_get(cols, row, <<"u", "t", "m", "_", "n", "o", "r", "t", "h", "i", "n", "g">>))
      lat == IF IsNone(conv.lat) THEN None ELSE Some(to_float(Val(conv.lat)))
      lon == IF IsNone(conv.lon) THEN None ELSE Some(to_float(Val(conv.lon)))
      obj == build_obj(cols, row, Val(place_id), Val(name), lat, lon)
      key == str_lower(str_strip(Val(name)))
  IN  IF IsNone(place_id) \/ IsNone(name)
      THEN [raised |-> FALSE, kept |-> FALSE, lines |-> lines,
            index |-> index, transformers |-> transformers,
            objs |-> <<>>, created |-> <<>>]
      ELSE IF conv.raised
      THEN [raised |-> TRUE, kept |-> FALSE, lines |-> lines,
            index |-> index, transformers |-> conv.transformers,
            objs |-> <<>>, created |-> conv.created]
      ELSE [raised |-> FALSE, kept |-> TRUE,
            lines |-> Append(lines, json_dumps(obj)),
            index |-> index_append(index, key, Val(place_id)),
            transformers |-> conv.transformers,
            objs |-> <<obj>>, created |-> conv.created]

\* ------------------------------------------------------------------------
\* What the run prints: a line is its fixed text and the values formatted
\* into it
\* ------------------------------------------------------------------------
\* the rename dict of _autofix_utm_columns as old, new, old, new, ...
RECURSIVE autofix_renames(_, _, _)
autofix_renames(cols, fixed, n) ==
  IF n = 0 THEN <<>>
  ELSE autofix_renames(cols, fixed, n - 1)
       \o (IF cols[n] # fixed[n] THEN <<cols[n], fixed[n]>> ELSE <<>>)

\* print(f"DEBUG: _autofix renamed columns: {rename}"), under "if rename"
autofix_prints(cols) ==
  LET fixed == autofix_utm_columns(cols)
  IN  IF fixed # cols
      THEN << [text |-> <<"D", "E", "B", "U", "G", ":", " ", "_", "a", "u", "t", "o", "f", "i", "x", " ", "r", "e", "n", "a", "m", "e", "d", " ", "c", "o", "l", "u", "m", "n", "s">>,
               args |-> autofix_renames(cols, fixed, Len(cols))] >>
      ELSE <<>>

OUT_PLACES == <<"d", "a", "t", "a", "/", "p", "r", "o", "c", "e", "s", "s", "e", "d", "/", "p", "l", "a", "c", "e", "s", ".", "j", "s", "o", "n", "l">>
OUT_INDEX == <<"d", "a", "t", "a", "/", "p", "r", "o", "c", "e", "s", "s", "e", "d", "/", "p", "l", "a", "c", "e", "s", "_", "i", "n", "d", "e", "x", ".", "j", "s", "o", "n">>

\* the three prints that end main
main_prints(sheet) ==
  << [text |-> <<"O", "K", ":", " ", "w", "r", "o", "t", "e">>, args |-> <<OUT_PLACES>>],
     [text |-> <<"O", "K", ":", " ", "w", "r", "o", "t", "e">>, args |-> <<OUT_INDEX>>],
     [text |-> <<"R", "o", "w", "s">>, args |-> <<int_repr(Len(sheet.rows))>>] >>

\* ------------------------------------------------------------------------
\* Output files as a previous run left them
\* ------------------------------------------------------------------------
NoFile == [exists |-> FALSE, content |-> <<>>]

OldObj ==
  [place_id |-> <<"9">>, name |-> <<"o", "l", "d">>, name_sorb |-> None,
   status_code |-> None, ags |-> None, ars |-> None, gvnr |-> None,
   admin |-> [district |-> None, verband_name |-> None, verband_type |-> None,
              region |-> None, plz |-> None, vorwahl |-> None],
   stats |-> [population |-> None, area_ha |-> None],
   geo |-> [lat |-> None, lon |-> None,
            utm |-> [zone |-> None, easting |-> None, northing |-> None,
                     crs |-> <<"E", "T", "R", "S", "8", "9", " ", "/", " ", "U", "T", "M", " ", "(", "E", "P", "S", "G", ":", "2", "5", "8", "x", "x", ")">>]],
   aliases |-> <<>>,
   sources |-> [gemeindeverzeichnis_bb |->
                  [last_modified |-> None, corrections |-> None]]]

OldPlaces == [exists |-> TRUE, content |-> <<json_dumps(OldObj)>>]
OldIndex == [exists |-> TRUE,
             content |-> json_dumps_index(<< <<<<"o", "l", "d">>, <<<<"9">>>> >> >>)]

NoError == [type |-> "", missing |-> <<>>, have |-> <<>>]

\* no element twice
Distinct(q) == \A i, j \in 1..Len(q) : q[i] = q[j] => i = j

\* a sheet: one of the header rows over up to MaxRows rows, no row twice
\* (rows of one place_id or of one name are among the kinds)
Sheets ==
  [cols : HeaderSets,
   rows : {q \in SeqsUpTo(RowKinds, MaxRows) : Distinct(q)}]
NoSheet == [cols |-> <<>>, rows |-> <<>>]

\* main opening OUT_PLACES for writing before it checks the columns
main_start_open_first(exists, sheet, file) ==
  LET cols == autofix_utm_columns(normalize_headers(sheet.cols))
      missing == missing_columns(cols)
      opened == [exists |-> TRUE, content |-> <<>>]
  IN  IF ~exists
      THEN [pc |-> "failed",
            error |-> [NoError EXCEPT !.type = "FileNotFoundError"],
            df |-> NoSheet, df_columns |-> <<>>, places_file |-> file]
      ELSE IF Len(missing) > 0
      THEN [pc |-> "failed",
            error |-> [type |-> "ValueError", missing |-> missing,
                       have |-> cols],
            df |-> sheet, df_columns |-> cols, places_file |-> opened]
      ELSE [pc |-> "rows", error |-> NoError, df |-> sheet,
            df_columns |-> cols, places_file |-> opened]

\* main checking the required columns before the coordinate-column fixer
\* has run
main_start_check_before_fix(exists, sheet, file) ==
  LET normalized == normalize_headers(sheet.cols)
      cols == autofix_utm_columns(normalized)
      missing == missing_columns(normalized)
  IN  IF ~exists
      THEN [pc |-> "failed",
            error |-> [NoError EXCEPT !.type = "FileNotFoundError"],
            df |-> NoSheet, df_columns |-> <<>>, places_file |-> file]
      ELSE IF Len(missing) > 0
      THEN [pc |-> "failed",
            error |-> [type |-> "ValueError", missing |-> missing,
                       have |-> cols],
            df |-> sheet, df_columns |-> cols, places_file |-> file]
      ELSE [pc |-> "rows", error |-> NoError, df |-> sheet,
            df_columns |-> cols,
            places_file |-> [exists |-> TRUE, content |-> <<>>]]

\* main from its first line to the opening of OUT_PLACES: where it stands
\* afterwards, the exception, the frame and the records file
main_start(exists, sheet, file) ==
  LET cols == autofix_utm_columns(normalize_headers(sheet.cols))
      missing == missing_columns(cols)
  IN  IF ~exists
      THEN [pc |-> "failed",
            error |-> [NoError EXCEPT !.type = "FileNotFoundError"],
            df |-> NoSheet, df_columns |-> <<>>, places_file |-> file]
      ELSE IF Len(missing) > 0
      THEN [pc |-> "failed",
            error |-> [type |-> "ValueError", missing |-> missing,
                       have |-> cols],
            df |-> sheet, df_columns |-> cols, places_file |-> file]
      ELSE [pc |-> "rows", error |-> NoError, df |-> sheet,
            df_columns |-> cols,
            places_file |-> [exists |-> TRUE, content |-> <<>>]]

\* ------------------------------------------------------------------------
\* rapidfuzz, for names and queries of one token.  A score is held in
\* units of 1/ScoreUnit, so that every ratio of strings of up to three
\* characters, and its 0.9 and 0.6 multiples, is exact.
\* ------------------------------------------------------------------------
ScoreUnit == 60

RECURSIVE lcs(_, _)
lcs(a, b) ==
  IF Len(a) = 0 \/ Len(b) = 0 THEN 0
  ELSE IF a[1] = b[1] THEN 1 + lcs(Tail(a), Tail(b))
  ELSE Max2(lcs(Tail(a), b), lcs(a, Tail(b)))

\* fuzz.ratio: the normalized Indel similarity, 100 * 2 * LCS / (len1 + len2)
fuzz_ratio(a, b) ==
  IF Len(a) + Len(b) = 0 THEN 100 * ScoreUnit
  ELSE (100 * ScoreUnit * 2 * lcs(a, b)) \div (Len(a) + Len(b))

SeqMax(S) == IF S = {} THEN 0 ELSE CHOOSE x \in S : \A y \in S : y <= x

\* fuzz.partial_ratio of a needle no longer than the other string: the best
\* ratio against the prefixes shorter than the needle, the windows of the
\* needle's length and the suffixes, skipping a window whose edge
\* character is not in the needle
fuzz_partial_ratio(s1, s2) ==
  LET len1 == Len(s1)
      len2 == Len(s2)
      in_s1(c) == \E k \in 1..len1 : s1[k] = c
      prefixes == {fuzz_ratio(s1, SubSeq(s2, 1, i)) :
                     i \in {j \in 1..(len1 - 1) : in_s1(s2[j])}}
      windows == {fuzz_ratio(s1, SubSeq(s2, i + 1, i + len1)) :
                    i \in {j \in 0..(len2 - len1 - 1) : in_s1(s2[j + len1])}}
      suffixes == {fuzz_ratio(s1, SubSeq(s2, i + 1, len2)) :
                     i \in {j \in (len2 - len1)..(len2 - 1) : in_s1(s2[j + 1])}}
  IN  SeqMax(prefixes \cup windows \cup suffixes)

\* fuzz.WRatio: for one token on each side the token ratios equal the plain
\* ratio, so their 0.95 multiples never win
fuzz_WRatio(s1, s2) ==
  LET len1 == Len(s1)
      len2 == Len(s2)
      long == Max2(len1, len2)
      short == IF len1 <= len2 THEN len1 ELSE len2
      shorter == IF len1 <= len2 THEN s1 ELSE s2
      longer == IF len1 <= len2 THEN s2 ELSE s1
      end_ratio == fuzz_ratio(s1, s2)
  IN  IF len1 = 0 \/ len2 = 0 THEN 0
      ELSE IF 2 * long < 3 * short THEN end_ratio
      ELSE IF long <= 8 * short
      THEN Max2(end_ratio, (fuzz_partial_ratio(shorter, longer) * 9) \div 10)
      ELSE Max2(end_ratio, (fuzz_partial_ratio(shorter, longer) * 6) \div 10)

\* a descending sort that puts a later choice before earlier ones of the
\* same score
RECURSIVE sort_desc_ties_reversed(_)
sort_desc_ties_reversed(ms) ==
  IF Len(ms) = 0 THEN ms
  ELSE LET rest == sort_desc_ties_reversed(SubSeq(ms, 1, Len(ms) - 1))
           x == ms[Len(ms)]
           before == SelectSeq(rest, LAMBDA m : m.score > x.score)
           after == SelectSeq(rest, LAMBDA m : m.score <= x.score)
       IN  before \o <<x>> \o after

\* sorted(results, key=score, reverse=True): stable, so equal scores keep
\* the order of the choices
RECURSIVE sort_desc(_)
sort_desc(ms) ==
  IF Len(ms) = 0 THEN ms
  ELSE LET rest == sort_desc(SubSeq(ms, 1, Len(ms) - 1))
           x == ms[Len(ms)]
           before == SelectSeq(rest, LAMBDA m : m.score >= x.score)
           after == SelectSeq(rest, LAMBDA m : m.score < x.score)
       IN  before \o <<x>> \o after

\* process.extract(q, choices, scorer=fuzz.WRatio, limit=limit)
process_extract(q, choices, limit) ==
  LET scored == [i \in 1..Len(choices) |->
                   [cand |-> choices[i], score |-> fuzz_WRatio(q, choices[i]),
                    idx |-> i - 1]]
      ranked == sort_desc(scored)
  IN  SubSeq(ranked, 1, IF limit < Len(ranked) THEN limit ELSE Len(ranked))

\* ------------------------------------------------------------------------
\* PlaceSearch.  A dict is the sequence of its <<key, value>> items in
\* insertion order.
\* ------------------------------------------------------------------------
dict_has(d, k) == \E i \in 1..Len(d) : d[i][1] = k

\* d[k] = v: a new key goes last, a known key keeps its position
dict_set(d, k, v) ==
  IF dict_has(d, k)
  THEN [i \in 1..Len(d) |-> IF d[i][1] = k THEN <<k, v>> ELSE d[i]]
  ELSE Append(d, <<k, v>>)

\* d.get(k): Optional
dict_lookup(d, k) ==
  IF dict_has(d, k)
  THEN Some(d[CHOOSE i \in 1..Len(d) : d[i][1] = k][2])
  ELSE None

\* "x or default" for an Optional str
str_or(o, default) == IF IsNone(o) \/ Len(Val(o)) = 0 THEN default ELSE Val(o)

\* the candidate loop without the "if key not in" test: last name wins
name_to_id_add_overwrite(name_to_id, key, pid) == dict_set(name_to_id, key, pid)

\* the candidate loop of __init__, first name wins
name_to_id_add(name_to_id, key, pid) ==
  IF dict_has(name_to_id, key) THEN name_to_id
  ELSE Append(name_to_id, <<key, pid>>)

RECURSIVE init_candidates(_, _)
init_candidates(places_by_id, n) ==
  IF n = 0 THEN <<>>
  ELSE LET sofar == init_candidates(places_by_id, n - 1)
           pid == places_by_id[n][1]
           p == places_by_id[n][2]
           name == str_strip(str_or(p.name, <<>>))
           key == str_lower(name)
       IN  IF Len(name) = 0 THEN sofar
           ELSE name_to_id_add(sofar, key, pid)

PlaceSearch_init(places_by_id) ==
  LET name_to_id == init_candidates(places_by_id, Len(places_by_id))
  IN  [places_by_id |-> places_by_id,
       name_to_id |-> name_to_id,
       candidates |-> [i \in 1..Len(name_to_id) |-> name_to_id[i][1]]]

\* the line loop of load_default (a written line is never blank)
RECURSIVE load_places(_, _)
load_places(lines, n) ==
  IF n = 0 THEN <<>>
  ELSE LET places == load_places(lines, n - 1)
           obj == json_loads(lines[n])
           pid == obj.place_id
       IN  IF IsNone(pid) \/ Len(Val(pid)) = 0 THEN places
           ELSE dict_set(places, Val(pid), obj)

load_default(file) ==
  IF ~file.exists
  THEN [raised |-> TRUE, self |-> None]
  ELSE [raised |-> FALSE,
        self |-> Some(PlaceSearch_init(load_places(file.content,
                                                   Len(file.content))))]

\* get: the returned value and the index afterwards
PlaceSearch_get(self, place_id) ==
  [ret |-> dict_lookup(self.places_by_id, place_id), self |-> self]

\* query normalization without the strip()
search_query_no_strip(query) == str_lower(str_or(query, <<>>))

\* query normalization of search
search_query(query) == str_lower(str_strip(str_or(query, <<>>)))

\* the threshold test the wrong way round
below_min_score_inverted(score, min_score) == score > min_score * ScoreUnit

\* "if score < min_score: continue"
below_min_score(score, min_score) == score < min_score * ScoreUnit

\* the hit with the two coordinates taken from each other's field
make_hit_swapped_axes(self, m) ==
  LET pid == Val(dict_lookup(self.name_to_id, m.cand))
      p == Val(dict_lookup(self.places_by_id, pid))
  IN  [place_id |-> pid,
       name |-> str_or(p.name, m.cand),
       score |-> m.score,
       status_code |-> p.status_code,
       district |-> p.admin.district,
       verband_name |-> p.admin.verband_name,
       lat |-> p.geo.lon,
       lon |-> p.geo.lat]

make_hit(self, m) ==
  LET pid == Val(dict_lookup(self.name_to_id, m.cand))
      p == Val(dict_lookup(self.places_by_id, pid))
  IN  [place_id |-> pid,
       name |-> str_or(p.name, m.cand),
       score |-> m.score,
       status_code |-> p.status_code,
       district |-> p.admin.district,
       verband_name |-> p.admin.verband_name,
       lat |-> p.geo.lat,
       lon |-> p.geo.lon]

\* the hit loop of search over the matches of process.extract
search_hits(self, matches, min_score) ==
  LET kept == SelectSeq(matches, LAMBDA m :
                /\ ~below_min_score(m.score, min_score)
                /\ dict_has(self.name_to_id, m.cand)
                /\ Len(Val(dict_lookup(self.name_to_id, m.cand))) > 0)
  IN  [i \in 1..Len(kept) |-> make_hit(self, kept[i])]

\* a search that takes the candidates it returns out of self._candidates
PlaceSearch_search_consuming(self, query, limit, min_score) ==
  LET q == search_query(query)
      hits == search_hits(self, process_extract(q, self.candidates, limit),
                          min_score)
      gone == {hits[i].place_id : i \in 1..Len(hits)}
  IN  IF Len(q) = 0
      THEN [ret |-> <<>>, scored |-> FALSE, self |-> self]
      ELSE [ret |-> hits,
            scored |-> TRUE,
            self |-> [self EXCEPT !.candidates =
                        SelectSeq(self.candidates, LAMBDA c :
                          Val(dict_lookup(self.name_to_id, c)) \notin gone)]]

\* search: the returned hits, whether the scorer ran, the index afterwards
PlaceSearch_search(self, query, limit, min_score) ==
  LET q == search_query(query)
  IN  IF Len(q) = 0
      THEN [ret |-> <<>>, scored |-> FALSE, self |-> self]
      ELSE [ret |-> search_hits(self, process_extract(q, self.candidates, limit),
                                min_score),
            scored |-> TRUE,
            self |-> self]


\* ------------------------------------------------------------------------
\* The HTTP layer
\* ------------------------------------------------------------------------
LimitGe == 1
LimitLe == 20

\* FastAPI's validation of /completion: query is required with
\* min_length=1, limit has ge=1 and le=20
completion_valid(query, limit) ==
  /\ ~IsNone(query)
  /\ Len(Val(query)) >= 1
  /\ LimitGe <= limit /\ limit <= LimitLe

completion_body(hits) ==
  [results |-> [i \in 1..Len(hits) |->
                  [value |-> hits[i].name, place_id |-> hits[i].place_id,
                   score |-> hits[i].score, status |-> hits[i].status_code,
                   district |-> hits[i].district,
                   verband |-> hits[i].verband_name,
                   lat |-> hits[i].lat, lon |-> hits[i].lon]],
   size |-> Len(hits),
   from |-> 0]

\* GET /place/{place_id}
place_response(self, place_id) ==
  LET p == PlaceSearch_get(self, place_id).ret
  IN  IF IsNone(p) THEN [status |-> 404, body |-> None]
      ELSE [status |-> 200, body |-> p]

\* ------------------------------------------------------------------------
\* Callers of the index and their arguments
\* ------------------------------------------------------------------------
Readers == {"r1", "r2"}

DefaultLimit == 10
DefaultMinScore == 60

BlankQueries == {None, Some(<<>>), Some(<<" ", "\t">>)}
NameQueries == {Some(<<" ", "A">>)}
Limits == 1..MaxLimit
HighMinScore == 95
PlaceIds == {<<"1">>, <<"7">>}

\* every limit under the default threshold, the largest limit under a
\* high one, and the blank queries with the defaults
SearchArgs ==
  [query : NameQueries, limit : Limits, min_score : {DefaultMinScore}]
  \cup [query : NameQueries, limit : {MaxLimit}, min_score : {HighMinScore}]
  \cup [query : BlankQueries, limit : {DefaultLimit}, min_score : {DefaultMinScore}]

CompletionArgs ==
  [query : NameQueries, limit : {0, MaxLimit}]
  \cup [query : BlankQueries \ {None}, limit : {DefaultLimit}]

\* ------------------------------------------------------------------------
\* Arguments for the header normalization and the numeric coercers taken
\* alone
\* ------------------------------------------------------------------------
HeaderPool == {
  <<"n", "a", "m", "e">>, <<"s", "t", "a", "t", "u", "s", "_", "c", "o", "d", "e">>, <<"u", "t", "m", "_", "z", "o", "n", "e">>, <<"u", "t", "m", "_", "e", "a", "s", "t", "i", "n", "g">>,
  <<"Z", "o", "n", "e">>, <<" ", "O", "s", "t", "w", "e", "r", "t", " ">>, <<BOM>> \o <<" ", "N", "a", "m", "e">>,
  <<"U", "T", "M", " ", "Z", "o", "n", "e", " ", "O", "s", "t", "w", "e", "r", "t">>, <<"U", "T", "M", " ", "Z", "o", "n", "e">> }

\* read_excel gives every column of a sheet a label of its own
HeaderLists == {h \in SeqsUpTo(HeaderPool, MaxHeaders) : Distinct(h)}

TextChars == {"7", "2", ".", ",", " ", "-", "x"}
Texts ==
  SeqsUpTo(TextChars, MaxText)
  \cup {<<"7", "2", ".", "4", "6", "1">>, <<"2", "2", ".", "9", "7", "2", ",", "5">>, <<" ", "1", ".", "2", "3", "4", ".", "5", "6", "7", " ">>, <<"0", ",", "2", "5">>}
Cells == {NaN} \cup {Some(t) : t \in Texts}

FnArgs ==
  [kind : {"headers"}, value : HeaderLists] \cup [kind : {"cell"}, value : Cells]
NoArg == [kind |-> "none", value |-> <<>>]
NoCall == [fn |-> "none", times |-> 0, ret |-> <<>>]

NoResponse ==
  [op |-> "none", query |-> None, limit |-> 0, min_score |-> 0,
   place_id |-> <<>>, ret |-> <<>>, scored |-> FALSE, status |-> 0]

\* ------------------------------------------------------------------------
\* State
\* ------------------------------------------------------------------------
VARIABLES
  input_exists,   \* INPUT_PATH.exists()
  df,             \* [cols, rows]: the worksheet read_excel_loose returned
  pc,             \* main: "start", "rows", "done", "failed", "exited"
  df_columns,     \* df.columns after renaming
  row_idx,        \* position of the row loop
  index,          \* main's index dict
  transformers,   \* _transformers
  places_file,    \* OUT_PLACES
  index_file,     \* OUT_INDEX
  error,          \* the exception main ended with
  stdout,         \* the lines the run has printed
  created,        \* the zones Transformer.from_crs was called for, in order
  written,        \* the objects serialized into OUT_PLACES, in order
  api_pc,         \* the API process: "down", "up", "failed"
  searcher,       \* the PlaceSearch the API process holds (Optional)
  resp,           \* per caller, its last call and what it returned
  fn_arg,         \* a header list or a cell handed to one function alone
  fn_call         \* the function applied to fn_arg and what it returned

pipeline_vars == <<input_exists, df, pc, df_columns, row_idx, index,
                   transformers, places_file, index_file, error,
                   stdout, created, written>>
search_vars == <<api_pc, searcher, resp>>

fn_vars == <<fn_arg, fn_call>>

vars == <<pipeline_vars, search_vars, fn_vars>>

Init ==
  /\ input_exists \in BOOLEAN
  /\ df = NoSheet
  /\ pc = "start"
  /\ df_columns = <<>>
  /\ row_idx = 1
  /\ index = <<>>
  /\ transformers = {}
  /\ \E old \in BOOLEAN :
       /\ places_file = (IF old THEN OldPlaces ELSE NoFile)
       /\ index_file = (IF old THEN OldIndex ELSE NoFile)
       /\ written = (IF old THEN <<OldObj>> ELSE <<>>)
  /\ error = NoError
  /\ stdout = <<>>
  /\ created = <<>>
  /\ api_pc = "down"
  /\ searcher = None
  /\ resp = [r \in Readers |-> NoResponse]
  /\ fn_arg = NoArg
  /\ fn_call = NoCall

\* main, up to the row loop: the input check, reading the sheet, header
\* normalization, the required-column check, opening OUT_PLACES for writing
MainStart ==
  /\ pc = "start"
  /\ \E sheet \in (IF input_exists THEN Sheets ELSE {NoSheet}) :
     \E m \in {main_start(input_exists, sheet, places_file)} :
           /\ pc' = m.pc
           /\ error' = m.error
           /\ df' = m.df
           /\ df_columns' = m.df_columns
           /\ places_file' = m.places_file
           /\ written' = (IF m.places_file = places_file THEN written ELSE <<>>)
           /\ stdout' = (IF input_exists
                         THEN autofix_prints(normalize_headers(sheet.cols))
                         ELSE <<>>)
  /\ UNCHANGED <<input_exists, row_idx, index, transformers, index_file,
                 created>>
  /\ UNCHANGED search_vars
  /\ UNCHANGED fn_vars

\* one iteration of "for _, row in df.iterrows()"
MainRow ==
  /\ pc = "rows"
  /\ row_idx <= Len(df.rows)
  /\ \E r \in {process_row(df_columns, df.rows[row_idx],
                           places_file.content, index, transformers)} :
         /\ places_file' = [places_file EXCEPT !.content = r.lines]
         /\ index' = r.index
         /\ transformers' = r.transformers
         /\ created' = created \o r.created
         /\ written' = written \o r.objs
         /\ IF r.raised
            THEN /\ pc' = "failed"
                 /\ error' = [NoError EXCEPT !.type = "CRSError"]
                 /\ UNCHANGED row_idx
            ELSE /\ row_idx' = row_idx + 1
                 /\ UNCHANGED <<pc, error>>
  /\ UNCHANGED <<input_exists, df, df_columns, index_file, stdout>>
  /\ UNCHANGED search_vars
  /\ UNCHANGED fn_vars

\* after the loop: OUT_INDEX.write_text(json.dumps(index, ...)) and the
\* closing prints
MainWriteIndex ==
  /\ pc = "rows"
  /\ row_idx > Len(df.rows)
  /\ index_file' = [exists |-> TRUE, content |-> json_dumps_index(index)]
  /\ pc' = "done"
  /\ stdout' = stdout \o main_prints(df)
  /\ UNCHANGED <<input_exists, df, df_columns, row_idx, index,
                 transformers, places_file, error, created, written>>
  /\ UNCHANGED search_vars
  /\ UNCHANGED fn_vars

\* the interpreter exits after main returned or raised: the objects of the
\* run and its terminal are gone, the files and the message stay
MainExit ==
  /\ pc \in {"done", "failed"}
  /\ pc' = "exited"
  /\ df' = NoSheet
  /\ df_columns' = <<>>
  /\ row_idx' = 1
  /\ index' = <<>>
  /\ transformers' = {}
  /\ created' = <<>>
  /\ stdout' = <<>>
  /\ UNCHANGED <<input_exists, places_file, index_file, error, written>>
  /\ UNCHANGED search_vars
  /\ UNCHANGED fn_vars

\* import of src.web.api: searcher = PlaceSearch.load_default()
ApiStart ==
  /\ pc = "exited"
  /\ api_pc = "down"
  /\ \E l \in {load_default(places_file)} :
         /\ api_pc' = (IF l.raised THEN "failed" ELSE "up")
         /\ searcher' = l.self
  /\ UNCHANGED resp
  /\ UNCHANGED pipeline_vars
  /\ UNCHANGED fn_vars

\* a caller runs searcher.search(query, limit, min_score)
Search(r, a) ==
  /\ api_pc = "up"
  /\ \E s \in {PlaceSearch_search(Val(searcher), a.query, a.limit,
                                  a.min_score)} :
         /\ searcher' = Some(s.self)
         /\ resp' = [resp EXCEPT ![r] =
                       [NoResponse EXCEPT !.op = "search", !.query = a.query,
                          !.limit = a.limit, !.min_score = a.min_score,
                          !.ret = s.ret, !.scored = s.scored]]
  /\ UNCHANGED api_pc
  /\ UNCHANGED pipeline_vars
  /\ UNCHANGED fn_vars

\* a caller runs searcher.get(place_id)
Get(r, place_id) ==
  /\ api_pc = "up"
  /\ \E g \in {PlaceSearch_get(Val(searcher), place_id)} :
         /\ searcher' = Some(g.self)
         /\ resp' = [resp EXCEPT ![r] =
                       [NoResponse EXCEPT !.op = "get", !.place_id = place_id,
                          !.ret = g.ret]]
  /\ UNCHANGED api_pc
  /\ UNCHANGED pipeline_vars
  /\ UNCHANGED fn_vars

\* GET /completion?query=&limit=
Completion(r, a) ==
  /\ api_pc = "up"
  /\ IF ~completion_valid(a.query, a.limit)
     THEN /\ resp' = [resp EXCEPT ![r] =
                        [NoResponse EXCEPT !.op = "completion",
                           !.query = a.query, !.limit = a.limit,
                           !.status = 422]]
          /\ UNCHANGED searcher
     ELSE \E s \in {PlaceSearch_search(Val(searcher), a.query, a.limit,
                                       DefaultMinScore)} :
              /\ searcher' = Some(s.self)
              /\ resp' = [resp EXCEPT ![r] =
                            [NoResponse EXCEPT !.op = "completion",
                               !.query = a.query, !.limit = a.limit,
                               !.min_score = DefaultMinScore,
                               !.ret = completion_body(s.ret),
                               !.scored = s.scored, !.status = 200]]
  /\ UNCHANGED api_pc
  /\ UNCHANGED pipeline_vars
  /\ UNCHANGED fn_vars

\* GET /place/{place_id}
Place(r, place_id) ==
  /\ api_pc = "up"
  /\ \E g \in {PlaceSearch_get(Val(searcher), place_id)},
        h \in {place_response(Val(searcher), place_id)} :
         /\ searcher' = Some(g.self)
         /\ resp' = [resp EXCEPT ![r] =
                       [NoResponse EXCEPT !.op = "place", !.place_id = place_id,
                          !.ret = h.body, !.status = h.status]]
  /\ UNCHANGED api_pc
  /\ UNCHANGED pipeline_vars
  /\ UNCHANGED fn_vars

Next ==
  \/ MainStart
  \/ MainRow
  \/ MainWriteIndex
  \/ MainExit
  \/ ApiStart
  \/ \E r \in Readers, a \in SearchArgs : Search(r, a)
  \/ \E r \in Readers, p \in PlaceIds : Get(r, p)
  \/ \E r \in Readers, a \in CompletionArgs : Completion(r, a)
  \/ \E r \in Readers, p \in PlaceIds : Place(r, p)

Spec == Init /\ [][Next]_vars

\* ------------------------------------------------------------------------
\* The header normalization and the numeric coercers applied to arguments
\* of their own, with no run of main and no index
\* ------------------------------------------------------------------------
InitFn ==
  /\ input_exists = FALSE
  /\ df = NoSheet
  /\ pc = "start"
  /\ df_columns = <<>>
  /\ row_idx = 1
  /\ index = <<>>
  /\ transformers = {}
  /\ places_file = NoFile
  /\ index_file = NoFile
  /\ written = <<>>
  /\ error = NoError
  /\ stdout = <<>>
  /\ created = <<>>
  /\ api_pc = "down"
  /\ searcher = None
  /\ resp = [r \in Readers |-> NoResponse]
  /\ fn_arg \in FnArgs
  /\ fn_call = NoCall

\* the "Normalize headers" step of main and _autofix_utm_columns, on the
\* header list or on what the step returned before
NormalizeHeaders ==
  /\ fn_arg.kind = "headers"
  /\ fn_call.times < 2
  /\ LET cols == IF fn_call.times = 0 THEN fn_arg.value ELSE fn_call.ret
     IN  fn_call' = [fn |-> "normalize", times |-> fn_call.times + 1,
                     ret |-> autofix_utm_columns(normalize_headers(cols))]
  /\ UNCHANGED fn_arg
  /\ UNCHANGED <<pipeline_vars, search_vars>>

ToIntSafe ==
  /\ fn_arg.kind = "cell"
  /\ fn_call.times = 0
  /\ fn_call' = [fn |-> "to_int_safe", times |-> 1,
                 ret |-> to_int_safe(fn_arg.value)]
  /\ UNCHANGED fn_arg
  /\ UNCHANGED <<pipeline_vars, search_vars>>

ToFloatSafe ==
  /\ fn_arg.kind = "cell"
  /\ fn_call.times = 0
  /\ fn_call' = [fn |-> "to_float_safe", times |-> 1,
                 ret |-> to_float_safe(fn_arg.value)]
  /\ UNCHANGED fn_arg
  /\ UNCHANGED <<pipeline_vars, search_vars>>

NextFn ==
  \/ NormalizeHeaders
  \/ ToIntSafe
  \/ ToFloatSafe

SpecFn == InitFn /\ [][NextFn]_vars

\* ------------------------------------------------------------------------
\* What the claims speak of
\* ------------------------------------------------------------------------
\* a cell that is NaN or holds nothing but whitespace
Blank(cell) ==
  IsNone(cell) \/ \A i \in 1..Len(Val(cell)) : Val(cell)[i] \in WHITESPACE

\* this run opened the records store and its frame is still in memory
RunWroteStore ==
  pc \in {"rows", "done"} \/ (pc = "failed" /\ error.type = "CRSError")

StartupErrors == {"FileNotFoundError", "ValueError"}

Lines == places_file.content
ProcessedRows == 1..(row_idx - 1)
RowId(i) == row_get(df_columns, df.rows[i], <<"o", "r", "t", "s", "t", "e", "i", "l", "_", "n", "r">>)
RowName(i) == row_get(df_columns, df.rows[i], <<"n", "a", "m", "e">>)
RowKey(i) == str_lower(str_strip(Val(RowName(i))))
RowPlaceId(i) == str_strip(Val(RowId(i)))
KeptRows == {i \in ProcessedRows : ~Blank(RowId(i)) /\ ~Blank(RowName(i))}
DroppedRows == ProcessedRows \ KeptRows
\* the line of a kept row: as many lines before it as kept rows before it
LineOf(i) == Cardinality({j \in KeptRows : j <= i})

NonEmpty(o) == ~IsNone(o) /\ Len(Val(o)) > 0

IndexEntries ==
  UNION {{<<index[k][1], index[k][2][j]>> : j \in 1..Len(index[k][2])} :
           k \in 1..Len(index)}

\* C1: a row whose place_id or name cell is blank adds no line to the
\* records store and nothing to the name index: the store has one line per
\* processed row with both cells filled, in row order, every written record
\* has a non-empty place_id and name, and every (key, place_id) of the
\* index comes from such a row.
C1_DropPolicy ==
  RunWroteStore =>
    /\ Len(Lines) = Cardinality(KeptRows)
    /\ \A k \in 1..Len(Lines) :
         /\ NonEmpty(json_loads(Lines[k]).place_id)
         /\ NonEmpty(json_loads(Lines[k]).name)
         /\ ~Blank(json_loads(Lines[k]).place_id)
         /\ ~Blank(json_loads(Lines[k]).name)
    /\ \A i \in KeptRows :
         /\ json_loads(Lines[LineOf(i)]).place_id = Some(RowPlaceId(i))
         /\ json_loads(Lines[LineOf(i)]).name = Some(str_strip(Val(RowName(i))))
    /\ IndexEntries = {<<RowKey(i), RowPlaceId(i)>> : i \in KeptRows}

\* a finished run that kept one row and dropped one with a whitespace-only
\* name
C1_Witness ==
  /\ pc = "done"
  /\ Cardinality(KeptRows) = 1
  /\ \E i \in DroppedRows : ~IsNone(RowName(i)) /\ Blank(RowName(i))

\* C2: a run that aborts on a missing input or on missing required columns
\* leaves both output files exactly as they were and has processed no row.
C2_AbortWritesNothing ==
  [][error'.type \in StartupErrors =>
       /\ places_file' = places_file
       /\ index_file' = index_file
       /\ row_idx' = 1
       /\ index' = <<>>]_vars

\* the required-column abort with the files of an earlier run still there
C2_Witness ==
  /\ pc = "failed"
  /\ error.type = "ValueError"
  /\ places_file = OldPlaces
  /\ index_file = OldIndex

\* C3: nothing a row holds makes the run fail: the only fatal errors are
\* the missing input and the missing required columns.
C3_RowFailuresNeverFatal ==
  pc = "failed" => error.type \in StartupErrors

\* C4: every record of the store has lat and lon both absent, or both
\* present with 45 <= lat <= 60 and 5 <= lon <= 20; a row whose three
\* components parse but whose transform falls outside the box is written
\* with both absent.
FloatBetween(f, lo, hi) == lo * pow10(f.d) <= f.m /\ f.m <= hi * pow10(f.d)

RowParses(i) ==
  /\ ~IsNone(to_int_safe(row_get(df_columns, df.rows[i], <<"u", "t", "m", "_", "z", "o", "n", "e">>)))
  /\ ~IsNone(to_int_safe(row_get(df_columns, df.rows[i], <<"u", "t", "m", "_", "e", "a", "s", "t", "i", "n", "g">>)))
  /\ ~IsNone(to_int_safe(row_get(df_columns, df.rows[i], <<"u", "t", "m", "_", "n", "o", "r", "t", "h", "i", "n", "g">>)))

RowLonLat(i) ==
  Transformer_transform(
    Val(to_int_safe(row_get(df_columns, df.rows[i], <<"u", "t", "m", "_", "z", "o", "n", "e">>))),
    Val(to_int_safe(row_get(df_columns, df.rows[i], <<"u", "t", "m", "_", "e", "a", "s", "t", "i", "n", "g">>))),
    Val(to_int_safe(row_get(df_columns, df.rows[i], <<"u", "t", "m", "_", "n", "o", "r", "t", "h", "i", "n", "g">>))))

RowOutOfBox(i) ==
  /\ RowParses(i)
  /\ \/ RowLonLat(i)[2] < 4500 \/ RowLonLat(i)[2] > 6000
     \/ RowLonLat(i)[1] < 500 \/ RowLonLat(i)[1] > 2000

RowSeq == [i \in 1..Len(df.rows) |-> i]

ExpectedIds(key) ==
  LET rows == SelectSeq(RowSeq, LAMBDA i : i \in KeptRows /\ RowKey(i) = key)
  IN  [j \in 1..Len(rows) |-> json_dumps_str(Some(RowPlaceId(rows[j])))]

C5_NameIndexAfterRun ==
  (pc = "done" \/ (pc = "failed" /\ error.type = "CRSError")) =>
    /\ index_file.exists
    /\ {index_file.content[k][1] : k \in 1..Len(index_file.content)}
         = {json_dumps_str(Some(RowKey(i))) : i \in KeptRows}
    /\ \A k \in 1..Len(index_file.content) :
         \E i \in KeptRows :
           /\ index_file.content[k][1] = json_dumps_str(Some(RowKey(i)))
           /\ index_file.content[k][2] = ExpectedIds(RowKey(i))

\* ------------------------------------------------------------------------
\* Claims about the search index
\* ------------------------------------------------------------------------
Self == Val(searcher)
Candidates == Self.candidates
SearchCalls == {r \in Readers : resp[r].op = "search"}
NamedSearchCalls == {r \in SearchCalls : Len(search_query(resp[r].query)) > 0}

ScoreOf(r, i) == fuzz_WRatio(search_query(resp[r].query), Candidates[i])
\* candidate j is ranked before candidate i for the query of r
Beats(r, j, i) ==
  \/ ScoreOf(r, j) > ScoreOf(r, i)
  \/ ScoreOf(r, j) = ScoreOf(r, i) /\ j < i
\* the candidates among the limit best that reach min_score
Selected(r) ==
  {i \in 1..Len(Candidates) :
     /\ Cardinality({j \in 1..Len(Candidates) : Beats(r, j, i)}) < resp[r].limit
     /\ ScoreOf(r, i) >= resp[r].min_score * ScoreUnit}
CandidateId(i) == Val(dict_lookup(Self.name_to_id, Candidates[i]))

\* C6: a search with a non-empty query returns exactly the candidates that
\* are among the limit highest-scoring ones and reach min_score, by
\* descending score, equal scores in candidate order; so at most limit
\* hits and none below min_score.
C6_SearchRanking ==
  \A r \in NamedSearchCalls :
    LET hits == resp[r].ret
    IN  /\ Len(hits) = Cardinality(Selected(r))
        /\ Len(hits) <= resp[r].limit
        /\ \A k \in 1..Len(hits) :
             hits[k].score >= resp[r].min_score * ScoreUnit
        /\ \A i \in Selected(r) :
             LET k == Cardinality({j \in Selected(r) : Beats(r, j, i)}) + 1
             IN  /\ hits[k].score = ScoreOf(r, i)
                 /\ hits[k].place_id = CandidateId(i)

\* one caller holds two hits of equal score, the other asked the same with
\* limit 1 and got the first of them only
C6_Witness ==
  \E r1, r2 \in NamedSearchCalls :
    /\ Len(resp[r1].ret) = 2
    /\ resp[r1].ret[1].score = resp[r1].ret[2].score
    /\ resp[r2].query = resp[r1].query
    /\ resp[r2].min_score = resp[r1].min_score
    /\ resp[r2].limit = 1
    /\ resp[r2].ret = <<resp[r1].ret[1]>>

\* the normalized name of a loaded record
KeyOfRecord(p) == str_lower(str_strip(str_or(p.name, <<>>)))
\* the position in places_by_id of the first record of that normalized name
FirstOfKey(key) ==
  CHOOSE n \in 1..Len(Self.places_by_id) :
    /\ KeyOfRecord(Self.places_by_id[n][2]) = key
    /\ \A m \in 1..(n - 1) : KeyOfRecord(Self.places_by_id[m][2]) # key
Shadowed ==
  {n \in 1..Len(Self.places_by_id) :
     FirstOfKey(KeyOfRecord(Self.places_by_id[n][2])) # n}

\* C7: of the loaded records of one normalized name only the first is a
\* search target: the candidate list holds the name once, mapped to the
\* place_id of the first such record, no hit carries the place_id of a
\* shadowed record, and get still returns every record by its place_id.
C7_FirstNameWins ==
  api_pc = "up" =>
    /\ \A i, j \in 1..Len(Candidates) : Candidates[i] = Candidates[j] => i = j
    /\ {Candidates[i] : i \in 1..Len(Candidates)}
         = {KeyOfRecord(Self.places_by_id[n][2]) : n \in 1..Len(Self.places_by_id)}
    /\ \A i \in 1..Len(Candidates) :
         CandidateId(i) = Self.places_by_id[FirstOfKey(Candidates[i])][1]
    /\ \A r \in SearchCalls : \A k \in 1..Len(resp[r].ret) :
         \A n \in Shadowed : resp[r].ret[k].place_id # Self.places_by_id[n][1]
    /\ \A r \in Readers : \A n \in 1..Len(Self.places_by_id) :
         (resp[r].op = "get" /\ resp[r].place_id = Self.places_by_id[n][1])
           => resp[r].ret = Some(Self.places_by_id[n][2])

\* two records of one name: a search hit carries the first one's place_id
\* while get returned the shadowed one
C7_Witness ==
  /\ api_pc = "up"
  /\ \E n \in Shadowed : \E r1, r2 \in Readers :
       /\ resp[r1].op = "search"
       /\ Len(resp[r1].ret) = 1
       /\ KeyOfRecord(Self.places_by_id[n][2])
            = str_lower(str_strip(resp[r1].ret[1].name))
       /\ resp[r1].ret[1].place_id # Self.places_by_id[n][1]
       /\ resp[r2].op = "get"
       /\ resp[r2].place_id = Self.places_by_id[n][1]
       /\ resp[r2].ret = Some(Self.places_by_id[n][2])

BlankQuery(query) == IsNone(query) \/ Blank(query)

\* C8: query-time misses are results: a search with a None, empty or
\* whitespace-only query returns [] without scoring, a search with no
\* candidate at or above min_score returns [], a get of an unknown place_id
\* returns None, and of the HTTP routes only /place answers 404, exactly
\* when the place_id is unknown.
C8_MissesAreResults ==
  \A r \in Readers :
    /\ (resp[r].op = "search" /\ BlankQuery(resp[r].query))
         => resp[r].ret = <<>> /\ ~resp[r].scored
    /\ (r \in NamedSearchCalls
        /\ \A i \in 1..Len(Candidates) :
             ScoreOf(r, i) < resp[r].min_score * ScoreUnit)
         => resp[r].ret = <<>> /\ resp[r].scored
    /\ (resp[r].op = "get" /\ ~dict_has(Self.places_by_id, resp[r].place_id))
         => resp[r].ret = None
    /\ resp[r].op = "completion" => resp[r].status \in {200, 422}
    /\ (resp[r].op = "completion" /\ resp[r].status = 200
        /\ BlankQuery(resp[r].query))
         => resp[r].ret.results = <<>> /\ resp[r].ret.size = 0
    /\ resp[r].op = "place" =>
         /\ resp[r].status \in {200, 404}
         /\ resp[r].status = 404
              <=> ~dict_has(Self.places_by_id, resp[r].place_id)

\* a whitespace-only query answered with [] and no scoring on a non-empty
\* index, and a 404 for an unknown place_id
C8_Witness ==
  /\ api_pc = "up"
  /\ Len(Candidates) > 0
  /\ \E r1, r2 \in Readers :
       /\ resp[r1].op = "search"
       /\ ~IsNone(resp[r1].query) /\ Len(Val(resp[r1].query)) > 0
       /\ BlankQuery(resp[r1].query)
       /\ resp[r1].ret = <<>> /\ ~resp[r1].scored
       /\ resp[r2].op = "place" /\ resp[r2].status = 404

SameCall(r1, r2) ==
  /\ resp[r1].op = resp[r2].op
  /\ resp[r1].query = resp[r2].query
  /\ resp[r1].limit = resp[r2].limit
  /\ resp[r1].min_score = resp[r2].min_score
  /\ resp[r1].place_id = resp[r2].place_id

\* C9: once constructed the index is never changed by a call, and calls
\* with identical arguments, by whichever caller and whatever was called
\* in between, hold the identical result.
C9_ReadOnlyDeterministic ==
  /\ [][api_pc = "up" => searcher' = searcher]_vars
  /\ [](\A r1, r2 \in Readers :
          (resp[r1].op \in {"search", "get"} /\ SameCall(r1, r2))
            => resp[r1].ret = resp[r2].ret)

\* both callers hold the same non-empty hit list for the same search
C9_Witness ==
  \E r1, r2 \in Readers :
    /\ r1 # r2
    /\ resp[r1].op = "search"
    /\ SameCall(r1, r2)
    /\ Len(resp[r1].ret) > 0
    /\ resp[r1].ret = resp[r2].ret

IsPrefix(a, b) == Len(a) <= Len(b) /\ SubSeq(b, 1, Len(a)) = a

\* C10: for one query and limit, the hits under a higher min_score are a
\* prefix of the hits under a lower one.
C10_ThresholdMonotone ==
  \A r1, r2 \in SearchCalls :
    (/\ resp[r1].query = resp[r2].query
     /\ resp[r1].limit = resp[r2].limit
     /\ resp[r1].min_score <= resp[r2].min_score)
      => IsPrefix(resp[r2].ret, resp[r1].ret)

\* the higher threshold cut a two-hit list down to its first hit
C10_Witness ==
  \E r1, r2 \in SearchCalls :
    /\ resp[r1].query = resp[r2].query
    /\ resp[r1].limit = resp[r2].limit
    /\ resp[r1].min_score < resp[r2].min_score
    /\ Len(resp[r1].ret) = 2
    /\ Len(resp[r2].ret) = 1

\* ------------------------------------------------------------------------
\* Claims about the headers
\* ------------------------------------------------------------------------
SeqSet(q) == {q[i] : i \in 1..Len(q)}
\* the run has read the sheet and its frame is still in memory
SheetRead == input_exists /\ pc \in {"rows", "done", "failed"}
\* the headers of the frame after the lookup table and the fixer
ObservedHeaders == autofix_utm_columns(normalize_headers(df.cols))
MissingFields == SeqSet(required) \ SeqSet(ObservedHeaders)

\* C11: when a required field is absent after normalization and the
\* coordinate-column fixer, the run has stopped with a ValueError that
\* lists exactly the absent required fields, once each, and all observed
\* headers, with no row processed and nothing printed by the row loop;
\* when none is absent there is no such error.
C11_MissingColumnsHardStop ==
  SheetRead =>
    IF MissingFields # {}
    THEN /\ pc = "failed"
         /\ error.type = "ValueError"
         /\ SeqSet(error.missing) = MissingFields
         /\ Len(error.missing) = Cardinality(MissingFields)
         /\ error.have = ObservedHeaders
         /\ row_idx = 1
         /\ index = <<>>
         /\ created = <<>>
    ELSE error.type # "ValueError"

\* the sheet whose easting and northing columns nothing recognises: both
\* are listed, next to all nine observed headers
C11_Witness ==
  /\ pc = "failed"
  /\ error.type = "ValueError"
  /\ error.missing = << <<"u", "t", "m", "_", "e", "a", "s", "t", "i", "n", "g">>, <<"u", "t", "m", "_", "n", "o", "r", "t", "h", "i", "n", "g">> >>
  /\ Len(error.have) = 9
  /\ Len(df.rows) > 0

CanonicalNames == {CANON_MAP[i][2] : i \in 1..Len(CANON_MAP)}

\* C12: normalizing a header list made only of canonical field names
\* returns it unchanged, and normalizing the result of a normalization
\* again returns that result.
C12_NormalizationIdempotent ==
  fn_call.fn = "normalize" =>
    /\ (fn_call.times = 1 /\ SeqSet(fn_arg.value) \subseteq CanonicalNames)
         => fn_call.ret = fn_arg.value
    /\ fn_call.times = 2
         => fn_call.ret = autofix_utm_columns(normalize_headers(fn_arg.value))

\* ------------------------------------------------------------------------
\* Claims about the records store
\* ------------------------------------------------------------------------
\* the dict json.loads returns for a line that holds exactly obj: the
\* fields main always fills are present, the others present or None
AsLoaded(obj) ==
  [obj EXCEPT !.place_id = Some(obj.place_id),
              !.name = Some(obj.name),
              !.geo.utm.crs = Some(obj.geo.utm.crs)]

\* C13: once the index has loaded the store it holds as many records as
\* were written, and get of the place_id of each written record returns a
\* record equal to it field for field.
C13_RoundTrip ==
  api_pc = "up" =>
    /\ Len(Self.places_by_id) = Len(written)
    /\ \A k \in 1..Len(written) :
         PlaceSearch_get(Self, written[k].place_id).ret
           = Some(AsLoaded(written[k]))

\* C14: no two records of the records store carry the same place_id.
C14_PlaceIdUnique ==
  \A k, l \in 1..Len(Lines) :
    json_loads(Lines[k]).place_id = json_loads(Lines[l]).place_id => k = l

\* the lines of the run's output that report the statistic of that name
StatLines(name) == {i \in 1..Len(stdout) : stdout[i].text = name}

\* C15: a finished run reports a skipped count, and it is the number of
\* input rows that were not written: retained plus skipped is the number
\* of input rows.
C15_SkippedCounted ==
  pc = "done" =>
    /\ StatLines(<<"s", "k", "i", "p", "p", "e", "d">>) # {}
    /\ \A i \in StatLines(<<"s", "k", "i", "p", "p", "e", "d">>) :
         /\ stdout[i].args = <<int_repr(Cardinality(DroppedRows))>>
         /\ Len(Lines) + Cardinality(DroppedRows) = Len(df.rows)

\* ------------------------------------------------------------------------
\* Claims about the numeric coercers
\* ------------------------------------------------------------------------
OnlyOf(t, chars) == \A i \in 1..Len(t) : t[i] \in chars
DigitChars == SeqSet(DIGITS)
DigitsOf(t) == SelectSeq(t, LAMBDA c : c \in DigitChars)
Commas(t) == Len(SelectSeq(t, LAMBDA c : c = ","))
\* the text of the cell the coercer was given, trimmed
CellText == str_strip(Val(fn_arg.value))
CellBlank == IsNone(fn_arg.value) \/ CellText = <<>>
\* a minus sign anywhere but in front
SignInside(t) == \E i \in 2..Len(t) : t[i] = "-"
\* the digits before the decimal comma and those after it
BeforeComma(t) ==
  IF Commas(t) = 0 THEN t
  ELSE SubSeq(t, 1, (CHOOSE i \in 1..Len(t) : t[i] = ",") - 1)
AfterComma(t) ==
  IF Commas(t) = 0 THEN <<>>
  ELSE SubSeq(t, (CHOOSE i \in 1..Len(t) : t[i] = ",") + 1, Len(t))
\* the number a text of digits, thousands points and one decimal comma
\* denotes
DecimalOf(t) ==
  float_norm(digits_value(DigitsOf(BeforeComma(t)) \o DigitsOf(AfterComma(t))),
             Len(DigitsOf(AfterComma(t))))

\* C16: the integer coercer reads digits with thousands points as the
\* integer of the digits ("72.461" is 72461), the float coercer reads
\* digits with thousands points and one decimal comma as that decimal
\* ("22.972,5" is 22972.5), and NaN, blank text, text without a digit,
\* text with two commas (float) and text with a sign inside give None.
C16_NumericCoercion ==
  /\ fn_call.fn = "to_int_safe" =>
       /\ CellBlank => fn_call.ret = None
       /\ (~CellBlank /\ DigitsOf(CellText) = <<>>) => fn_call.ret = None
       /\ (~CellBlank /\ OnlyOf(CellText, DigitChars \cup {"-"})
           /\ SignInside(CellText)) => fn_call.ret = None
       /\ (~CellBlank /\ OnlyOf(CellText, DigitChars \cup {"."})
           /\ DigitsOf(CellText) # <<>>)
            => fn_call.ret = Some(digits_value(DigitsOf(CellText)))
       /\ fn_arg.value = Some(<<"7", "2", ".", "4", "6", "1">>) => fn_call.ret = Some(72461)
  /\ fn_call.fn = "to_float_safe" =>
       /\ CellBlank => fn_call.ret = None
       /\ (~CellBlank /\ DigitsOf(CellText) = <<>>) => fn_call.ret = None
       /\ (~CellBlank /\ OnlyOf(CellText, DigitChars \cup {"-"})
           /\ SignInside(CellText)) => fn_call.ret = None
       /\ (~CellBlank /\ OnlyOf(CellText, DigitChars \cup {".", ","})
           /\ Commas(CellText) > 1) => fn_call.ret = None
       /\ (~CellBlank /\ OnlyOf(CellText, DigitChars \cup {".", ","})
           /\ DigitsOf(CellText) # <<>> /\ Commas(CellText) <= 1)
            => fn_call.ret = Some(DecimalOf(CellText))
       /\ fn_arg.value = Some(<<"2", "2", ".", "9", "7", "2", ",", "5">>)
            => fn_call.ret = Some([m |-> 229725, d |-> 1])

\* the float coercer has read "22.972,5" as 22972.5
C16_Witness ==
  /\ fn_call.fn = "to_float_safe"
  /\ fn_arg.value = Some(<<"2", "2", ".", "9", "7", "2", ",", "5">>)
  /\ fn_call.ret = Some(DecimalOf(<<"2", "2", ".", "9", "7", "2", ",", "5">>))
  /\ DecimalOf(<<"2", "2", ".", "9", "7", "2", ",", "5">>) = [m |-> 229725, d |-> 1]

\* ------------------------------------------------------------------------
\* Claims about the transformer cache
\* ------------------------------------------------------------------------
\* the row the loop is about to process reaches utm_to_wgs84
RowConverts(i) == ~Blank(RowId(i)) /\ ~Blank(RowName(i))
RowZone(i) == Val(to_int_safe(row_get(df_columns, df.rows[i], <<"u", "t", "m", "_", "z", "o", "n", "e">>)))

\* C17: within a run, an iteration of the row loop never takes a zone out
\* of the cache; a conversion whose three components parse and whose zone
\* is not cached creates the transformer of that zone and caches it; one
\* whose zone is cached creates nothing; a row that is dropped or has an
\* unparsable component leaves the cache as it is; so no zone has a
\* transformer created twice and the cache holds exactly the zones created.
C17_CacheOnlyGrows ==
  /\ [][(pc = "rows" /\ row_idx <= Len(df.rows)) =>
          /\ transformers \subseteq transformers'
          /\ (RowConverts(row_idx) /\ RowParses(row_idx)
              /\ RowZone(row_idx) \notin transformers)
               => /\ transformers' = transformers \cup {RowZone(row_idx)}
                  /\ created' = Append(created, RowZone(row_idx))
          /\ (RowConverts(row_idx) /\ RowParses(row_idx)
              /\ RowZone(row_idx) \in transformers)
               => /\ transformers' = transformers
                  /\ created' = created
          /\ (~RowConverts(row_idx) \/ ~RowParses(row_idx))
               => /\ transformers' = transformers
                  /\ created' = created]_vars
  /\ [](/\ \A i, j \in 1..Len(created) : created[i] = created[j] => i = j
        /\ SeqSet(created) = transformers)

\* ------------------------------------------------------------------------
\* Claims about the hits
\* ------------------------------------------------------------------------
RecordOf(place_id) == Val(dict_lookup(Self.places_by_id, place_id))

\* C18: every hit of a search carries a place_id that is a key of the
\* index; the trimmed lowercased name of the record under that key is a
\* candidate, mapped to that place_id and scored as the hit is; the hit's
\* name, status, district, association and coordinates are that record's;
\* and no two hits of one result carry the same place_id.
C18_HitsResolve ==
  \A r \in SearchCalls :
    LET hits == resp[r].ret
    IN  /\ \A k \in 1..Len(hits) :
             /\ dict_has(Self.places_by_id, hits[k].place_id)
             /\ LET p == RecordOf(hits[k].place_id)
                IN  /\ KeyOfRecord(p) \in SeqSet(Candidates)
                    /\ dict_lookup(Self.name_to_id, KeyOfRecord(p))
                         = Some(hits[k].place_id)
                    /\ hits[k].score
                         = fuzz_WRatio(search_query(resp[r].query), KeyOfRecord(p))
                    /\ Some(hits[k].name) = p.name
                    /\ hits[k].status_code = p.status_code
                    /\ hits[k].district = p.admin.district
                    /\ hits[k].verband_name = p.admin.verband_name
                    /\ hits[k].lat = p.geo.lat
                    /\ hits[k].lon = p.geo.lon
        /\ \A k, l \in 1..Len(hits) :
             hits[k].place_id = hits[l].place_id => k = l

\* a search returned two hits, one of a record with coordinates and one of
\* a record without
C18_Witness ==
  \E r \in NamedSearchCalls :
    /\ Len(resp[r].ret) = 2
    /\ resp[r].ret[1].place_id # resp[r].ret[2].place_id
    /\ \E k \in 1..2 : ~IsNone(resp[r].ret[k].lat)
    /\ \E k \in 1..2 : IsNone(resp[r].ret[k].lon)

====
